---- MODULE Spec2Model ----
(***************************************************************************)
(* The span-tree flattener of                                              *)
(* src/sentry/static/sentry/app/components/events/interfaces/spans/        *)
(* spanTree.tsx: SpanTree.render -> renderRootSpan -> renderSpan           *)
(* (recursive) and generateInfoMessage.                                    *)
(*                                                                         *)
(* The recursion of renderSpan is modelled by an explicit call stack: one  *)
(* step enters renderSpan for a span (everything the body computes from    *)
(* its arguments), one step is the tail of the reduce callback after a     *)
(* child call returned, and one step is the return of the root call to     *)
(* render().  Rows are kept in document order: the info message, the gap   *)
(* row and the span row of a call precede the rows of its children, which  *)
(* the span row embeds.                                                    *)
(*                                                                         *)
(* Timestamps are exact multiples of 50 ms, written as integer ticks:      *)
(* 0.1 s is 2 ticks.                                                       *)
(***************************************************************************)
EXTENDS Integers, Sequences, FiniteSets, TLC

\* Bounds of the model.
MaxSpans == 3
MaxId == 2
MaxTime == 2
MaxUpdates == 2

\* The minimal width of a gap, 0.1 s, in ticks (spanTree.tsx line 180).
MinGap == 2

\* trace.rootSpanID, the identifier generateRootSpan gives the synthetic root.
RootSpanID == 0

VARIABLES
    spans,        \* the raw span objects of the trace, by reference 1..n
    childSpans,   \* trace.childSpans: span id -> references of its children
    hidden,       \* reference -> ~generateBounds(span).isSpanVisibleInView
    filterSpans,  \* props.filterSpans: <<>> (undefined) or <<set of span ids>>
    isBrowserJS,  \* isEventFromBrowserJavaScriptSDK(props.event)
    pc,           \* "idle" | "rendering" | "done"
    stack,        \* the frames of the active renderSpan calls, innermost last
    rows,         \* what the pass has emitted so far, in document order
    calls,        \* history: the arguments of every renderSpan call, in call order
    returned,     \* history: call number -> the RenderedSpanTree it returned
    result,       \* <<>> or <<what renderRootSpan returned to render()>>
    footer,       \* the info message render() puts after the tree
    dragProps,    \* props.dragProps: isDragging and isWindowSelectionDragging
    updates,      \* the number of props updates the component has received
    renderedWith, \* history: the value of hidden the latest pass started with
    previous      \* history: <<>> or <<rows, footer and view of the pass before>>

vars == <<spans, childSpans, hidden, filterSpans, isBrowserJS, pc, stack, rows,
          calls, returned, result, footer, dragProps, updates, renderedWith,
          previous>>

inputs == <<spans, hidden, filterSpans, isBrowserJS, dragProps, updates>>

----------------------------------------------------------------------------
\* Values

Undefined == <<>>
Some(x) == <<x>>
IsNumber(x) == Len(x) = 1
The(x) == x[1]

Ids == 0..MaxId
Times == 0..MaxTime

\* trace.traceEndTimestamp: the latest end of a span of the trace
traceEndTimestamp(sp) ==
    LET ends == {0} \cup {sp[i].timestamp : i \in DOMAIN sp}
    IN  CHOOSE m \in ends : \A e \in ends : e <= m

\* The synthetic root wraps the whole trace; it is reference 0.
generateRootSpan(sp) ==
    [span_id |-> RootSpanID, start_timestamp |-> 0,
     timestamp |-> traceEndTimestamp(sp), type |-> "raw"]

SpanAt(sp, ref) == IF ref = 0 THEN generateRootSpan(sp) ELSE sp[ref]
Span(ref) == SpanAt(spans, ref)

getSpanID(span) == span.span_id
isGapSpan(span) == span.type = "gap"
isOrphanSpan(span) == span.type = "orphan"

\* The child lookup of a trace: every span is listed under its parent id, in
\* the order of the span table.
RECURSIVE ChildrenUpTo(_, _, _)
ChildrenUpTo(sp, k, n) ==
    IF n = 0 THEN <<>>
    ELSE LET r == ChildrenUpTo(sp, k, n - 1)
         IN  IF sp[n].parent_span_id = k THEN Append(r, n) ELSE r

BuildChildSpans(sp) ==
    [k \in {sp[i].parent_span_id : i \in DOMAIN sp} |-> ChildrenUpTo(sp, k, Len(sp))]

----------------------------------------------------------------------------
\* The pure parts of renderSpan, in the order of its body

\* line 151: childSpans?.[getSpanID(span)] ?? []
spanChildrenOf(cs, span) ==
    IF getSpanID(span) \in DOMAIN cs THEN cs[getSpanID(span)] ELSE <<>>

\* a plausible slip: the copy is made but the key is never deleted
pruneChildSpans_keep(cs, span) == cs

\* lines 155-158: a copy of the lookup without the key of this span
pruneChildSpans(cs, span) ==
    [k \in (DOMAIN cs) \ {getSpanID(span)} |-> cs[k]]

\* a plausible slip: the delete comes before the copy and hits the object the
\* caller passed
receivedChildSpansAfter_inPlace(cs, span) ==
    [k \in (DOMAIN cs) \ {getSpanID(span)} |-> cs[k]]

\* lines 155-158, seen from the caller: the local name is rebound to the copy
\* before the delete, so the object that was passed keeps all its keys
receivedChildSpansAfter(cs, span) == cs

\* lines 113-121
isSpanFilteredOut(span) ==
    IF filterSpans = Undefined THEN FALSE
    ELSE getSpanID(span) \notin The(filterSpans)

\* lines 166-168
isCurrentSpanFilteredOut(span) ==
    IF isGapSpan(span) THEN FALSE ELSE isSpanFilteredOut(span)

\* line 170
isSpanDisplayed(isHidden, isFilteredOut) == ~isHidden /\ ~isFilteredOut

\* line 174
shouldIncludeGap == ~isBrowserJS

\* a plausible slip: a gap of exactly 0.1 s does not count
isValidGap_strict(previousSiblingEndTimestamp, span) ==
    /\ IsNumber(previousSiblingEndTimestamp)
    /\ The(previousSiblingEndTimestamp) < span.start_timestamp
    /\ span.start_timestamp - The(previousSiblingEndTimestamp) > MinGap
    /\ shouldIncludeGap

\* lines 176-181
isValidGap(previousSiblingEndTimestamp, span) ==
    /\ IsNumber(previousSiblingEndTimestamp)
    /\ The(previousSiblingEndTimestamp) < span.start_timestamp
    /\ span.start_timestamp - The(previousSiblingEndTimestamp) >= MinGap
    /\ shouldIncludeGap

\* a plausible slip: the span keeps the number its gap row was given
spanGroupNumber_shared(validGap, displayed, spanNumber) == spanNumber

\* line 183
spanGroupNumber(validGap, displayed, spanNumber) ==
    IF validGap /\ displayed THEN spanNumber + 1 ELSE spanNumber

\* a plausible slip: the marker carries the depth of the children
treeDepthEntry_below(span, treeDepth) ==
    IF isOrphanSpan(span)
    THEN [type |-> "orphan", depth |-> treeDepth + 1]
    ELSE [type |-> "plain", depth |-> treeDepth + 1]

\* lines 193-195; a plain depth is tagged "plain"
treeDepthEntry(span, treeDepth) ==
    IF isOrphanSpan(span)
    THEN [type |-> "orphan", depth |-> treeDepth]
    ELSE [type |-> "plain", depth |-> treeDepth]

\* a plausible slip: the marker is appended for a last child too
treeArr_always(isLast, continuingTreeDepths, entry) ==
    Append(continuingTreeDepths, entry)

\* lines 197-199
treeArr(isLast, continuingTreeDepths, entry) ==
    IF isLast THEN continuingTreeDepths ELSE Append(continuingTreeDepths, entry)

\* a plausible slip: a span in view carries the out-of-view count on
reduceSeed_carry(groupNumber, isHidden, isFilteredOut, numOut, numFiltered) ==
    [nextSpanNumber |-> groupNumber + 1,
     numOfSpansOutOfViewAbove |-> IF isHidden THEN numOut + 1 ELSE numOut,
     numOfFilteredSpansAbove |->
         IF isFilteredOut THEN numFiltered + 1
         ELSE IF isHidden THEN numFiltered
         ELSE 0,
     previousSiblingEndTimestamp |-> Undefined]

\* a plausible slip: a span out of view resets the filtered count
reduceSeed_hiddenResets(groupNumber, isHidden, isFilteredOut, numOut, numFiltered) ==
    [nextSpanNumber |-> groupNumber + 1,
     numOfSpansOutOfViewAbove |-> IF isHidden THEN numOut + 1 ELSE 0,
     numOfFilteredSpansAbove |-> IF isFilteredOut THEN numFiltered + 1 ELSE 0,
     previousSiblingEndTimestamp |-> Undefined]

\* lines 231-241: the initial accumulator of the reduce over the children;
\* numOut and numFiltered are the counts the call received
reduceSeed(groupNumber, isHidden, isFilteredOut, numOut, numFiltered) ==
    [nextSpanNumber |-> groupNumber + 1,
     numOfSpansOutOfViewAbove |-> IF isHidden THEN numOut + 1 ELSE 0,
     numOfFilteredSpansAbove |->
         IF isFilteredOut THEN numFiltered + 1
         ELSE IF isHidden THEN numFiltered
         ELSE 0,
     previousSiblingEndTimestamp |-> Undefined]

\* a plausible slip: the filtered fragment lacks the guard of line 97
generateInfoMessage_noGuard(input) ==
    (IF ~input.isCurrentSpanHidden /\ input.numOfSpansOutOfViewAbove > 0
     THEN <<[key |-> "spans-out-of-view", n |-> input.numOfSpansOutOfViewAbove]>>
     ELSE <<>>)
    \o (IF ~input.isCurrentSpanFilteredOut /\ input.numOfFilteredSpansAbove > 0
        THEN <<[key |-> "spans-filtered", n |-> input.numOfFilteredSpansAbove]>>
        ELSE <<>>)

\* lines 68-111: the fragments of the message, <<>> for null
generateInfoMessage(input) ==
    LET showHiddenSpansMessage ==
            ~input.isCurrentSpanHidden /\ input.numOfSpansOutOfViewAbove > 0
        showFilteredSpansMessage ==
            ~input.isCurrentSpanFilteredOut /\ input.numOfFilteredSpansAbove > 0
        hiddenSpans ==
            IF showHiddenSpansMessage
            THEN <<[key |-> "spans-out-of-view", n |-> input.numOfSpansOutOfViewAbove]>>
            ELSE <<>>
        filteredSpans ==
            IF showFilteredSpansMessage /\ ~input.isCurrentSpanHidden
            THEN <<[key |-> "spans-filtered", n |-> input.numOfFilteredSpansAbove]>>
            ELSE <<>>
    IN  hiddenSpans \o filteredSpans

\* lines 251-257; x || y takes y when x is undefined or 0
spanGap(previousSiblingEndTimestamp, span) ==
    [type |-> "gap",
     start_timestamp |->
         IF IsNumber(previousSiblingEndTimestamp)
            /\ The(previousSiblingEndTimestamp) # 0
         THEN The(previousSiblingEndTimestamp)
         ELSE span.start_timestamp,
     timestamp |-> span.start_timestamp,
     isOrphan |-> isOrphanSpan(span)]

----------------------------------------------------------------------------
\* One call of renderSpan.  args is the parameter object of lines 123-147 with
\* span a reference; call is the number of the call.

\* The frame of the call when it reaches the reduce of line 201.
renderSpanFrame(args, call) ==
    LET span == Span(args.span)
        isHidden == hidden[args.span]
        isFilteredOut == isCurrentSpanFilteredOut(span)
        displayed == isSpanDisplayed(isHidden, isFilteredOut)
        validGap == isValidGap(args.previousSiblingEndTimestamp, span)
        groupNumber == spanGroupNumber(validGap, displayed, args.spanNumber)
    IN  [call |-> call,
         span |-> args.span,
         isLast |-> args.isLast,
         treeDepth |-> args.treeDepth,
         spanChildren |-> spanChildrenOf(args.childSpans, span),
         childSpans |-> pruneChildSpans(args.childSpans, span),
         treeArr |-> treeArr(args.isLast, args.continuingTreeDepths,
                             treeDepthEntry(span, args.treeDepth)),
         index |-> 0,
         acc |-> reduceSeed(groupNumber, isHidden, isFilteredOut,
                            args.numOfSpansOutOfViewAbove,
                            args.numOfFilteredSpansAbove)]

\* What the call contributes to the document ahead of its children:
\* lines 244-249, 259-279 and 285-308.
renderSpanRows(args, call) ==
    LET span == Span(args.span)
        isHidden == hidden[args.span]
        isFilteredOut == isCurrentSpanFilteredOut(span)
        displayed == isSpanDisplayed(isHidden, isFilteredOut)
        validGap == isValidGap(args.previousSiblingEndTimestamp, span)
        groupNumber == spanGroupNumber(validGap, displayed, args.spanNumber)
        infoMessage == generateInfoMessage(
            [isCurrentSpanHidden |-> isHidden,
             numOfSpansOutOfViewAbove |-> args.numOfSpansOutOfViewAbove,
             isCurrentSpanFilteredOut |-> isFilteredOut,
             numOfFilteredSpansAbove |-> args.numOfFilteredSpansAbove])
        infoRow == [kind |-> "info", call |-> call, messages |-> infoMessage]
        gapRow == [kind |-> "gap", call |-> call,
                   spanNumber |-> args.spanNumber,
                   isLast |-> FALSE,
                   continuingTreeDepths |-> args.continuingTreeDepths,
                   isRoot |-> args.isRoot,
                   span |-> spanGap(args.previousSiblingEndTimestamp, span),
                   treeDepth |-> args.treeDepth,
                   numOfSpanChildren |-> 0,
                   isCurrentSpanFilteredOut |-> isFilteredOut,
                   isCurrentSpanHidden |-> isHidden]
        spanRow == [kind |-> "span", call |-> call,
                    spanNumber |-> groupNumber,
                    isLast |-> args.isLast,
                    continuingTreeDepths |-> args.continuingTreeDepths,
                    isRoot |-> args.isRoot,
                    span |-> args.span,
                    treeDepth |-> args.treeDepth,
                    numOfSpanChildren |-> Len(spanChildrenOf(args.childSpans, span)),
                    isCurrentSpanFilteredOut |-> isFilteredOut,
                    isCurrentSpanHidden |-> isHidden]
    IN  (IF infoMessage = <<>> THEN <<>> ELSE <<infoRow>>)
        \o (IF validGap /\ displayed THEN <<gapRow>> ELSE <<>>)
        \o <<spanRow>>

\* a plausible slip: the numbering starts at 0 and the root is not marked last
rootArgs_fromZero ==
    [isRoot |-> TRUE, isLast |-> FALSE, spanNumber |-> 0, treeDepth |-> 0,
     continuingTreeDepths |-> <<>>, numOfSpansOutOfViewAbove |-> 0,
     numOfFilteredSpansAbove |-> 0, span |-> 0, childSpans |-> childSpans,
     previousSiblingEndTimestamp |-> Undefined]

\* lines 325-337: the arguments renderRootSpan passes
rootArgs ==
    [isRoot |-> TRUE, isLast |-> TRUE, spanNumber |-> 1, treeDepth |-> 0,
     continuingTreeDepths |-> <<>>, numOfSpansOutOfViewAbove |-> 0,
     numOfFilteredSpansAbove |-> 0, span |-> 0, childSpans |-> childSpans,
     previousSiblingEndTimestamp |-> Undefined]

\* lines 205-216: the arguments the reduce callback passes for the next child
childArgs(f) ==
    [isRoot |-> FALSE,
     spanNumber |-> f.acc.nextSpanNumber,
     isLast |-> (f.index + 1 = Len(f.spanChildren)),
     continuingTreeDepths |-> f.treeArr,
     treeDepth |-> f.treeDepth + 1,
     numOfSpansOutOfViewAbove |-> f.acc.numOfSpansOutOfViewAbove,
     numOfFilteredSpansAbove |-> f.acc.numOfFilteredSpansAbove,
     span |-> f.spanChildren[f.index + 1],
     childSpans |-> f.childSpans,
     previousSiblingEndTimestamp |-> f.acc.previousSiblingEndTimestamp]

\* a plausible slip: the out-of-view count of the child's subtree is dropped
reduceStep_keep(acc, results, spanChild) ==
    [nextSpanNumber |-> results.nextSpanNumber,
     numOfSpansOutOfViewAbove |-> acc.numOfSpansOutOfViewAbove,
     numOfFilteredSpansAbove |-> results.numOfFilteredSpansAbove,
     previousSiblingEndTimestamp |-> Some(spanChild.timestamp)]

\* a plausible slip: the start of the child is kept instead of its end
reduceStep_start(acc, results, spanChild) ==
    [nextSpanNumber |-> results.nextSpanNumber,
     numOfSpansOutOfViewAbove |-> results.numOfSpansOutOfViewAbove,
     numOfFilteredSpansAbove |-> results.numOfFilteredSpansAbove,
     previousSiblingEndTimestamp |-> Some(spanChild.start_timestamp)]

\* a plausible slip: the counts of the child's subtree are added to those the
\* child was called with
reduceStep_sum(acc, results, spanChild) ==
    [nextSpanNumber |-> results.nextSpanNumber,
     numOfSpansOutOfViewAbove |->
         acc.numOfSpansOutOfViewAbove + results.numOfSpansOutOfViewAbove,
     numOfFilteredSpansAbove |->
         acc.numOfFilteredSpansAbove + results.numOfFilteredSpansAbove,
     previousSiblingEndTimestamp |-> Some(spanChild.timestamp)]

\* a plausible slip: the end of the first child is kept for all later children
reduceStep_first(acc, results, spanChild) ==
    [nextSpanNumber |-> results.nextSpanNumber,
     numOfSpansOutOfViewAbove |-> results.numOfSpansOutOfViewAbove,
     numOfFilteredSpansAbove |-> results.numOfFilteredSpansAbove,
     previousSiblingEndTimestamp |->
         IF acc.previousSiblingEndTimestamp # Undefined
         THEN acc.previousSiblingEndTimestamp
         ELSE Some(spanChild.timestamp)]

\* lines 222-227: the accumulator after a child call returned results
reduceStep(acc, results, spanChild) ==
    [nextSpanNumber |-> results.nextSpanNumber,
     numOfSpansOutOfViewAbove |-> results.numOfSpansOutOfViewAbove,
     numOfFilteredSpansAbove |-> results.numOfFilteredSpansAbove,
     previousSiblingEndTimestamp |-> Some(spanChild.timestamp)]

\* lines 281-284: what a call returns once its reduce is over
renderedSpanTree(f) ==
    [nextSpanNumber |-> f.acc.nextSpanNumber,
     numOfSpansOutOfViewAbove |-> f.acc.numOfSpansOutOfViewAbove,
     numOfFilteredSpansAbove |-> f.acc.numOfFilteredSpansAbove]

\* No call stack outgrows this: every frame but the innermost has removed its
\* own id from the lookup its children receive.
MaxDepth == MaxId + 3

Top == stack[Len(stack)]
Finished(f) == f.index = Len(f.spanChildren)
Record(f, k, v) == [c \in DOMAIN f \cup {k} |-> IF c = k THEN v ELSE f[c]]

----------------------------------------------------------------------------
\* Steps

\* render() calls renderRootSpan, which calls renderSpan on the root
\* (lines 370-375, 313-338).
render ==
    /\ pc = "idle"
    /\ pc' = "rendering"
    /\ stack' = <<renderSpanFrame(rootArgs, 1)>>
    /\ rows' = renderSpanRows(rootArgs, 1)
    /\ calls' = <<[args |-> rootArgs, caller |-> 0, index |-> 0]>>
    /\ childSpans' = receivedChildSpansAfter(childSpans, Span(0))
    /\ renderedWith' = hidden
    /\ UNCHANGED <<inputs, returned, result, footer, previous>>

\* The reduce callback calls renderSpan on the next child (lines 202-216).
renderSpanChild ==
    /\ pc = "rendering"
    /\ ~Finished(Top)
    /\ Len(stack) < MaxDepth
    /\ LET args == childArgs(Top)
           call == Len(calls) + 1
           caller == [Top EXCEPT !.childSpans =
                         receivedChildSpansAfter(@, Span(args.span))]
       IN  /\ stack' = Append([stack EXCEPT ![Len(stack)] = caller],
                              renderSpanFrame(args, call))
           /\ rows' = rows \o renderSpanRows(args, call)
           /\ calls' = Append(calls, [args |-> args, caller |-> Top.call,
                                      index |-> Top.index])
    /\ UNCHANGED <<inputs, childSpans, pc, returned, result, footer, renderedWith,
                   previous>>

\* A child call returns to the reduce callback of its parent
\* (lines 281-285, then 218-229).
renderSpanReturn ==
    /\ pc = "rendering"
    /\ Len(stack) > 1
    /\ Finished(Top)
    /\ LET results == renderedSpanTree(Top)
           parent == stack[Len(stack) - 1]
           spanChild == Span(Top.span)
       IN  /\ stack' = [SubSeq(stack, 1, Len(stack) - 1) EXCEPT ![Len(stack) - 1] =
                           [parent EXCEPT !.index = parent.index + 1,
                                          !.acc = reduceStep(parent.acc, results, spanChild)]]
           /\ returned' = Record(returned, Top.call, results)
    /\ UNCHANGED <<inputs, childSpans, pc, rows, calls, result, footer,
                   renderedWith, previous>>

\* The root call returns to render(), which builds the trailing message
\* (lines 371-382).
renderDone ==
    /\ pc = "rendering"
    /\ Len(stack) = 1
    /\ Finished(Top)
    /\ LET results == renderedSpanTree(Top)
       IN  /\ result' = Some(results)
           /\ returned' = Record(returned, Top.call, results)
           /\ footer' = generateInfoMessage(
                  [isCurrentSpanHidden |-> FALSE,
                   numOfSpansOutOfViewAbove |-> results.numOfSpansOutOfViewAbove,
                   isCurrentSpanFilteredOut |-> FALSE,
                   numOfFilteredSpansAbove |-> results.numOfFilteredSpansAbove])
    /\ stack' = <<>>
    /\ pc' = "done"
    /\ UNCHANGED <<inputs, childSpans, rows, calls, renderedWith, previous>>

Next == render \/ renderSpanChild \/ renderSpanReturn \/ renderDone

\* a plausible slip: the drag flags are not consulted
shouldComponentUpdate_always(nextDragProps) == TRUE

\* lines 57-63
shouldComponentUpdate(nextDragProps) ==
    IF nextDragProps.isDragging \/ nextDragProps.isWindowSelectionDragging
    THEN FALSE
    ELSE TRUE

\* What generateBounds says of every span under the view window from
\* viewStart to viewEnd (in ticks): a span is out of view when it ends before
\* the window or starts after it.
boundsGenerator(sp, viewStart, viewEnd) ==
    [r \in 0..Len(sp) |->
        \/ SpanAt(sp, r).timestamp < viewStart
        \/ SpanAt(sp, r).start_timestamp > viewEnd]

\* The view windows whose two edges fall on the start of the trace or on the
\* start of a span.
ViewWindows(sp) ==
    LET edges == {0} \cup {sp[i].start_timestamp : i \in DOMAIN sp}
    IN  {w \in edges \X edges : w[1] <= w[2]}

\* The component receives new props between two passes: drag flags and a view
\* window.  The props are taken in any case; the tree is rendered again only
\* when shouldComponentUpdate allows it.
componentUpdate ==
    /\ pc = "done"
    /\ updates < MaxUpdates
    /\ updates' = updates + 1
    /\ \E next \in [isDragging : BOOLEAN, isWindowSelectionDragging : BOOLEAN],
          w \in ViewWindows(spans) :
          /\ dragProps' = next
          /\ hidden' = boundsGenerator(spans, w[1], w[2])
          /\ IF shouldComponentUpdate(next)
             THEN /\ pc' = "idle"
                  /\ previous' = Some([rows |-> rows, footer |-> footer,
                                       hidden |-> renderedWith])
                  /\ rows' = <<>>
                  /\ calls' = <<>>
                  /\ returned' = <<>>
                  /\ result' = Undefined
                  /\ footer' = <<>>
             ELSE UNCHANGED <<pc, previous, rows, calls, returned, result, footer>>
    /\ UNCHANGED <<spans, childSpans, filterSpans, isBrowserJS, stack, renderedWith>>

NextDrag == Next \/ componentUpdate

----------------------------------------------------------------------------
\* Initial states: the component is constructed with its props, nothing is
\* rendered yet.

Fresh ==
    /\ pc = "idle"
    /\ stack = <<>>
    /\ rows = <<>>
    /\ calls = <<>>
    /\ returned = <<>>
    /\ result = Undefined
    /\ footer = <<>>
    /\ dragProps = [isDragging |-> FALSE, isWindowSelectionDragging |-> FALSE]
    /\ updates = 0
    /\ renderedWith = <<>>
    /\ previous = Undefined

SeqsUpTo(n, S) == UNION {[1..m -> S] : m \in 0..n}

\* Any lookup over a few ids, duplicated ids and cycles included; untimed spans,
\* everything in view, no filter.
ShapeSpans ==
    [span_id : Ids, parent_span_id : Ids, start_timestamp : {0}, timestamp : {0},
     type : {"raw"}]

Init ==
    /\ spans \in SeqsUpTo(MaxSpans, ShapeSpans)
    /\ childSpans = BuildChildSpans(spans)
    /\ hidden = [r \in 0..Len(spans) |-> FALSE]
    /\ filterSpans = Undefined
    /\ isBrowserJS = FALSE
    /\ Fresh

Spec == Init /\ [][Next]_vars

\* Well-formed traces: span i has identifier i and a parent among the root and
\* the spans before it, so every span is reached and every ordered tree occurs.
\* T gives the (start, end) pairs and Ty the types a span may have.
RECURSIVE TreeTables(_, _, _)
TreeTables(n, T, Ty) ==
    IF n = 0 THEN {<<>>}
    ELSE {Append(sp, [span_id |-> n, parent_span_id |-> p, start_timestamp |-> t[1],
                      timestamp |-> t[2], type |-> ty]) :
              sp \in TreeTables(n - 1, T, Ty), p \in 0..(n - 1), t \in T, ty \in Ty}

TreesUpTo(n, T, Ty) == UNION {TreeTables(m, T, Ty) : m \in 0..n}

\* generateBounds is a function of a span's timestamps: spans that agree on
\* both agree on being in view.
BoundsAreAFunction ==
    \A r1, r2 \in DOMAIN hidden :
        (/\ Span(r1).start_timestamp = Span(r2).start_timestamp
         /\ Span(r1).timestamp = Span(r2).timestamp) => hidden[r1] = hidden[r2]

\* Span i runs from tick 2i to tick 2i + 1.
Staggered(sp) ==
    [i \in DOMAIN sp |->
        [sp[i] EXCEPT !.start_timestamp = 2 * i, !.timestamp = 2 * i + 1]]

\* Trees with every combination of spans out of view and of filters.
InitCount ==
    /\ spans \in {Staggered(sp) : sp \in TreesUpTo(MaxSpans, {<<0, 0>>}, {"raw"})}
    /\ childSpans = BuildChildSpans(spans)
    /\ hidden \in [0..Len(spans) -> BOOLEAN]
    /\ filterSpans \in {Undefined} \cup {Some(S) : S \in SUBSET (0..Len(spans))}
    /\ isBrowserJS = FALSE
    /\ Fresh

SpecCount == InitCount /\ [][Next]_vars

\* Trees of plain and orphan spans.
InitDepth ==
    /\ spans \in TreesUpTo(MaxSpans, {<<0, 0>>}, {"raw", "orphan"})
    /\ childSpans = BuildChildSpans(spans)
    /\ hidden = [r \in 0..Len(spans) |-> FALSE]
    /\ filterSpans = Undefined
    /\ isBrowserJS = FALSE
    /\ Fresh

SpecDepth == InitDepth /\ [][Next]_vars

\* Trees of one span fewer with every timing start <= end, with and without gap
\* suppression, and at most one span out of view or filtered out.
TimePairs == {t \in Times \X Times : t[1] <= t[2]}

InitGap ==
    /\ spans \in TreesUpTo(MaxSpans - 1, TimePairs, {"raw"})
    /\ childSpans = BuildChildSpans(spans)
    /\ \E h \in (0..Len(spans)) \cup {-1}, f \in (0..Len(spans)) \cup {-1} :
          /\ h = -1 \/ f = -1
          /\ hidden = [r \in 0..Len(spans) |-> r = h]
          /\ filterSpans = IF f = -1 THEN Undefined
                           ELSE Some((0..Len(spans)) \ {f})
    /\ BoundsAreAFunction
    /\ isBrowserJS \in BOOLEAN
    /\ Fresh

SpecGap == InitGap /\ [][Next]_vars

\* The trace of the end-to-end scenarios: root R with children A (0.0 s to
\* 0.2 s) and B (0.5 s to 0.6 s), under every view, filter and SDK.
scenarioSpans ==
    <<[span_id |-> 1, parent_span_id |-> 0, start_timestamp |-> 0, timestamp |-> 4,
       type |-> "raw"],
      [span_id |-> 2, parent_span_id |-> 0, start_timestamp |-> 10, timestamp |-> 12,
       type |-> "raw"]>>

InitScenario ==
    /\ spans = scenarioSpans
    /\ childSpans = BuildChildSpans(spans)
    /\ hidden \in [0..Len(spans) -> BOOLEAN]
    /\ filterSpans \in {Undefined} \cup {Some(S) : S \in SUBSET (0..Len(spans))}
    /\ isBrowserJS \in BOOLEAN
    /\ Fresh

SpecScenario == InitScenario /\ [][Next]_vars

\* Trees with the whole trace in the view window, then props updates with and
\* without a drag, each with a view window.
InitDrag ==
    /\ spans \in {Staggered(sp) : sp \in TreesUpTo(MaxSpans, {<<0, 0>>}, {"raw"})}
    /\ childSpans = BuildChildSpans(spans)
    /\ hidden = boundsGenerator(spans, 0, traceEndTimestamp(spans))
    /\ filterSpans = Undefined
    /\ isBrowserJS = FALSE
    /\ Fresh

SpecDrag == InitDrag /\ [][NextDrag]_vars

\* Both families, any lookup of one span fewer and timed trees, with passes made
\* again on props updates.
InitShape ==
    /\ spans \in SeqsUpTo(MaxSpans - 1, ShapeSpans)
    /\ childSpans = BuildChildSpans(spans)
    /\ hidden = [r \in 0..Len(spans) |-> FALSE]
    /\ filterSpans = Undefined
    /\ isBrowserJS = FALSE
    /\ Fresh

InitAgain == InitShape \/ InitDrag

SpecAgain == InitAgain /\ [][NextDrag]_vars

\* The pass is one synchronous call: a step that can be taken is taken.
FairSpec == Spec /\ WF_vars(Next)

----------------------------------------------------------------------------
\* Reading the history

CallIds == DOMAIN calls
CallSpan(c) == Span(calls[c].args.span)

RECURSIVE AncestorCalls(_)
AncestorCalls(c) ==
    IF calls[c].caller = 0 THEN {}
    ELSE {calls[c].caller} \cup AncestorCalls(calls[c].caller)

\* the calls made on one span object of the trace
CallsOn(ref) == {c \in CallIds : calls[c].args.span = ref}

\* a span was visited below a span that carries the same identifier
CycleVisited ==
    \E c \in CallIds : \E a \in AncestorCalls(c) :
        getSpanID(CallSpan(c)) = getSpanID(CallSpan(a))

\* what the inputs say of the span of a call
IsHidden(c) == hidden[calls[c].args.span]
IsFilteredOut(c) ==
    filterSpans # Undefined /\ getSpanID(CallSpan(c)) \notin The(filterSpans)
IsDisplayed(c) == ~IsHidden(c) /\ ~IsFilteredOut(c)

ChildCalls(c) == {d \in CallIds : calls[d].caller = c}
SubtreeCalls(c) == {c} \cup {d \in CallIds : c \in AncestorCalls(d)}
NumChildren(c) ==
    LET cs == calls[c].args.childSpans
        id == getSpanID(CallSpan(c))
    IN  IF id \in DOMAIN cs THEN Len(cs[id]) ELSE 0

\* positions of the rows of a call
RowsOf(c, kind) == {i \in DOMAIN rows : rows[i].call = c /\ rows[i].kind = kind}
SpanRowOf(c) == CHOOSE i \in RowsOf(c, "span") : TRUE
HasGapRow(c) == RowsOf(c, "gap") # {}

\* the numbers a message shows under a key: empty when the fragment is absent
Shown(messages, key) ==
    {messages[i].n : i \in {j \in DOMAIN messages : messages[j].key = key}}
InfoOf(c) ==
    IF RowsOf(c, "info") = {} THEN <<>>
    ELSE rows[CHOOSE i \in RowsOf(c, "info") : TRUE].messages

\* the first row a call contributes after its info message
FirstRowOf(c) ==
    CHOOSE i \in RowsOf(c, "gap") \cup RowsOf(c, "span") :
        \A j \in RowsOf(c, "gap") \cup RowsOf(c, "span") : i <= j

SetMax(S) == CHOOSE m \in S : \A x \in S : x <= m

----------------------------------------------------------------------------
\* C1: for every finite child lookup, one in which a span carries the id of
\* one of its ancestors included, the pass started by renderRootSpan
\* terminates: every renderSpan call returns and render() gets its result.
C1_Terminates == <>(pc = "done")

\* a pass that met such a span below an ancestor of the same id has returned
C1_Witness == pc = "done" /\ CycleVisited /\ Len(calls) >= 3

\* C2: in one pass no span object of the lookup is traversed twice: renderSpan
\* is called at most once on each of them.
C2_NoSpanTraversedTwice ==
    \A ref \in 1..Len(spans) : Cardinality(CallsOn(ref)) <= 1

\* C3: the numbered rows (gap rows and span rows) carry 1, 2, 3, ... in output
\* order, the root first; a span takes the number it was called with, unless
\* a gap row precedes it: then the gap row takes that number and the span the
\* next; a call returns one more than the largest number used in its subtree.
NumberedRows == SelectSeq(rows, LAMBDA r : r.kind # "info")

C3_SequenceNumbers ==
    /\ \A i \in DOMAIN NumberedRows : NumberedRows[i].spanNumber = i
    /\ \A c \in CallIds :
          LET incoming == calls[c].args.spanNumber
          IN  /\ \A g \in RowsOf(c, "gap") : rows[g].spanNumber = incoming
              /\ rows[SpanRowOf(c)].spanNumber =
                     IF HasGapRow(c) THEN incoming + 1 ELSE incoming
    /\ \A c \in DOMAIN returned :
          returned[c].nextSpanNumber =
              1 + SetMax({rows[i].spanNumber :
                             i \in {j \in DOMAIN rows :
                                       /\ rows[j].kind # "info"
                                       /\ rows[j].call \in SubtreeCalls(c)}})

\* a finished pass with a gap row, a span out of view and a filtered-out span
C3_Witness ==
    /\ pc = "done"
    /\ \E c \in CallIds : HasGapRow(c)
    /\ \E c \in CallIds : IsHidden(c)
    /\ \E c \in CallIds : IsFilteredOut(c) /\ ~IsHidden(c)

\* C4: a gap row is emitted immediately before the row of a visited span S
\* exactly when the previous-sibling end p it was called with is defined,
\* p < start of S, start - p is at least 0.1 s, the event is not from the
\* browser-JS SDK and S is displayed; with the browser-JS SDK there is no gap
\* row at all.
C4_GapInsertion ==
    /\ \A c \in CallIds :
          LET p == calls[c].args.previousSiblingEndTimestamp
              s == CallSpan(c).start_timestamp
          IN  /\ HasGapRow(c) <=>
                     /\ p # Undefined
                     /\ The(p) < s
                     /\ s - The(p) >= MinGap
                     /\ ~isBrowserJS
                     /\ IsDisplayed(c)
              /\ \A g \in RowsOf(c, "gap") : g + 1 = SpanRowOf(c)
              /\ Cardinality(RowsOf(c, "gap")) <= 1
    /\ isBrowserJS => \A i \in DOMAIN rows : rows[i].kind # "gap"

\* a gap of exactly 0.1 s got its row
C4_Witness ==
    /\ pc = "done"
    /\ \E c \in CallIds :
          /\ HasGapRow(c)
          /\ CallSpan(c).start_timestamp
                 - The(calls[c].args.previousSiblingEndTimestamp) = MinGap

\* The counts a call hands on before any of its children is visited: to its
\* first child, in the accumulator of its frame while no child has returned,
\* and to its caller when it has no children.
HandsOn(c, out, filtered) ==
    /\ \A d \in ChildCalls(c) :
          calls[d].index = 0 =>
              /\ calls[d].args.numOfSpansOutOfViewAbove = out
              /\ calls[d].args.numOfFilteredSpansAbove = filtered
    /\ \A k \in DOMAIN stack :
          (stack[k].call = c /\ stack[k].index = 0) =>
              /\ stack[k].acc.numOfSpansOutOfViewAbove = out
              /\ stack[k].acc.numOfFilteredSpansAbove = filtered
    /\ (c \in DOMAIN returned /\ NumChildren(c) = 0) =>
          /\ returned[c].numOfSpansOutOfViewAbove = out
          /\ returned[c].numOfFilteredSpansAbove = filtered

\* C5 as stated: a hidden span adds one to the hidden-above count and carries
\* the filtered-above count through unchanged; a filtered-out span that is not
\* hidden adds one to the filtered-above count and resets the hidden-above
\* count; a displayed span resets both.
C5_AsStated ==
    \A c \in CallIds :
        LET out == calls[c].args.numOfSpansOutOfViewAbove
            filtered == calls[c].args.numOfFilteredSpansAbove
        IN  IF IsHidden(c) THEN HandsOn(c, out + 1, filtered)
            ELSE IF IsFilteredOut(c) THEN HandsOn(c, 0, filtered + 1)
            ELSE HandsOn(c, 0, 0)

\* C5 (amended): as stated, except that a hidden span that is also
\* filtered-out adds one to the filtered-above count as well; only a hidden
\* span that is not filtered-out carries it through unchanged.
C5_CounterPolicy ==
    \A c \in CallIds :
        LET out == calls[c].args.numOfSpansOutOfViewAbove
            filtered == calls[c].args.numOfFilteredSpansAbove
        IN  CASE IsHidden(c) /\ IsFilteredOut(c) -> HandsOn(c, out + 1, filtered + 1)
              [] IsHidden(c) /\ ~IsFilteredOut(c) -> HandsOn(c, out + 1, filtered)
              [] ~IsHidden(c) /\ IsFilteredOut(c) -> HandsOn(c, 0, filtered + 1)
              [] OTHER -> HandsOn(c, 0, 0)

\* a finished pass with a hidden and filtered-out span that received counts
\* and has a child, and a childless span that is filtered-out only
C5_Witness ==
    /\ pc = "done"
    /\ \E c \in CallIds :
          /\ IsHidden(c) /\ IsFilteredOut(c) /\ ChildCalls(c) # {}
          /\ calls[c].args.numOfSpansOutOfViewAbove > 0
          /\ calls[c].args.numOfFilteredSpansAbove > 0
    /\ \E c \in CallIds : ~IsHidden(c) /\ IsFilteredOut(c) /\ NumChildren(c) = 0

\* C6: when the N >= 1 spans visited just before a visible span are all
\* hidden (and the one before them, if any, is not), the info message right
\* above the rows of the visible span reports exactly N spans out of view,
\* and the hidden-above count handed on after the visible span is 0.
HiddenRunBefore(c) ==
    SetMax({n \in 0..(c - 1) : \A d \in (c - n)..(c - 1) : IsHidden(d)})

C6_VisibilityCounting ==
    \A c \in CallIds :
        (~IsHidden(c) /\ HiddenRunBefore(c) >= 1) =>
            /\ Shown(InfoOf(c), "spans-out-of-view") = {HiddenRunBefore(c)}
            /\ \A i \in RowsOf(c, "info") : i + 1 = FirstRowOf(c)
            /\ (c + 1) \in CallIds => calls[c + 1].args.numOfSpansOutOfViewAbove = 0
            /\ (pc = "done" /\ c = Len(calls)) =>
                   The(result).numOfSpansOutOfViewAbove = 0

\* a visible span was reached after two hidden spans and another span follows
C6_Witness ==
    /\ pc = "done"
    /\ \E c \in CallIds :
          ~IsHidden(c) /\ HiddenRunBefore(c) >= 2 /\ (c + 1) \in CallIds

\* C7: a "spans filtered out" fragment is shown above span S only if S is
\* neither filtered-out nor hidden; it then reports the number of filtered-out
\* spans visited since the previous displayed span, whether or not they or
\* the spans between them were in view; filtered-out spans after the last
\* displayed span are reported by the message after the whole tree.
PreviousDisplayed(c) == SetMax({0} \cup {d \in 1..(c - 1) : IsDisplayed(d)})
FilteredBetween(a, b) == Cardinality({d \in (a + 1)..(b - 1) : IsFilteredOut(d)})
FilteredAbove(c) == FilteredBetween(PreviousDisplayed(c), c)

C7_FilterCounting ==
    /\ \A c \in CallIds :
          Shown(InfoOf(c), "spans-filtered") =
              IF IsDisplayed(c) /\ FilteredAbove(c) > 0
              THEN {FilteredAbove(c)} ELSE {}
    /\ pc = "done" =>
          Shown(footer, "spans-filtered") =
              IF FilteredAbove(Len(calls) + 1) > 0
              THEN {FilteredAbove(Len(calls) + 1)} ELSE {}

\* a displayed span reports a filtered-out span met before a hidden, unfiltered
\* one, and the trailing message reports a later filtered-out span
C7_Witness ==
    /\ pc = "done"
    /\ Shown(footer, "spans-filtered") # {}
    /\ \E c \in CallIds :
          /\ Shown(InfoOf(c), "spans-filtered") # {}
          /\ \E d \in (PreviousDisplayed(c) + 1)..(c - 1) :
                IsHidden(d) /\ ~IsFilteredOut(d)

\* C8: the continuing-depth list a visited span builds and hands to all of its
\* children is the list it received when it is the last child at its level;
\* otherwise it is the received list with one entry appended for its own
\* depth, tagged orphan iff the span is an orphan span.  Every child is
\* visited at the depth of its parent plus one, and only the final element of
\* a children sequence has is-last true.
BuiltList(c) ==
    LET a == calls[c].args
        own == [type |-> IF CallSpan(c).type = "orphan" THEN "orphan" ELSE "plain",
                depth |-> a.treeDepth]
    IN  IF a.isLast THEN a.continuingTreeDepths
        ELSE a.continuingTreeDepths \o <<own>>

C8_DepthMarkers ==
    /\ \A k \in DOMAIN stack : stack[k].treeArr = BuiltList(stack[k].call)
    /\ \A c \in CallIds : \A d \in ChildCalls(c) :
          /\ calls[d].args.continuingTreeDepths = BuiltList(c)
          /\ calls[d].args.treeDepth = calls[c].args.treeDepth + 1
          /\ calls[d].args.isLast <=> (calls[d].index + 1 = NumChildren(c))
          /\ rows[SpanRowOf(d)].isLast = calls[d].args.isLast
          /\ rows[SpanRowOf(d)].treeDepth = calls[d].args.treeDepth

\* an orphan span that is not last has handed its list, with its own orphan
\* entry, to a last child, whose frame has built the same list again
C8_Witness ==
    /\ pc = "done"
    /\ \E c \in CallIds :
          /\ ~calls[c].args.isLast /\ CallSpan(c).type = "orphan"
          /\ \E d \in ChildCalls(c) :
                /\ calls[d].args.isLast
                /\ calls[d].args.continuingTreeDepths
                       = <<[type |-> "orphan", depth |-> calls[c].args.treeDepth]>>

\* C9: above a span the "N spans out of view" fragment is produced iff the
\* span is not hidden and the hidden-above count it received is positive, the
\* "N spans filtered out" fragment iff the span is not filtered-out, the
\* filtered-above count it received is positive and the span is not hidden;
\* nothing is produced when neither applies; N is the count received, as it
\* stood before the span's own contribution.  The message after the tree
\* follows the same rule with a current span that is neither.
Fragments(messages, isHidden, isFilteredOut, out, filtered) ==
    /\ Shown(messages, "spans-out-of-view") =
           IF ~isHidden /\ out > 0 THEN {out} ELSE {}
    /\ Shown(messages, "spans-filtered") =
           IF ~isFilteredOut /\ filtered > 0 /\ ~isHidden THEN {filtered} ELSE {}
    /\ Len(messages) = Cardinality(Shown(messages, "spans-out-of-view"))
                       + Cardinality(Shown(messages, "spans-filtered"))

C9_InfoMessage ==
    /\ \A c \in CallIds :
          /\ Fragments(InfoOf(c), IsHidden(c), IsFilteredOut(c),
                       calls[c].args.numOfSpansOutOfViewAbove,
                       calls[c].args.numOfFilteredSpansAbove)
          /\ Cardinality(RowsOf(c, "info")) = IF InfoOf(c) = <<>> THEN 0 ELSE 1
    /\ pc = "done" =>
          Fragments(footer, FALSE, FALSE, The(result).numOfSpansOutOfViewAbove,
                    The(result).numOfFilteredSpansAbove)

\* one span shows both fragments, and a hidden, unfiltered span that received
\* a positive filtered-above count shows none
C9_Witness ==
    /\ pc = "done"
    /\ \E c \in CallIds : Len(InfoOf(c)) = 2
    /\ \E c \in CallIds :
          /\ IsHidden(c) /\ ~IsFilteredOut(c)
          /\ calls[c].args.numOfFilteredSpansAbove > 0
          /\ InfoOf(c) = <<>>

\* The end-to-end scenario: everything in view, no filter, gaps not suppressed.
ScenarioRun ==
    /\ pc = "done"
    /\ spans = scenarioSpans
    /\ \A r \in DOMAIN hidden : ~hidden[r]
    /\ filterSpans = Undefined
    /\ ~isBrowserJS

\* a row by name: R, A and B for the spans, gap for a gap row
RowName(r) ==
    IF r.kind = "gap" THEN "gap"
    ELSE IF r.span = 0 THEN "R" ELSE IF r.span = 1 THEN "A" ELSE "B"
RowNames == [i \in DOMAIN NumberedRows |-> RowName(NumberedRows[i])]
RowNumbers == [i \in DOMAIN NumberedRows |-> NumberedRows[i].spanNumber]
GapRowsSpan(from, to) ==
    \A i \in DOMAIN rows :
        rows[i].kind = "gap" =>
            rows[i].span.start_timestamp = from /\ rows[i].span.timestamp = to
DepthOfSpanRows(ref, depth) ==
    \A i \in DOMAIN rows :
        (rows[i].kind = "span" /\ rows[i].span = ref) => rows[i].treeDepth = depth

\* C10 as stated: the rows are [R, gap(0.2 s to 0.5 s), A, B], numbered
\* 1, 2, 3, 4, with A and B at depth 1.
C10_AsStated ==
    ScenarioRun =>
        /\ RowNames = <<"R", "gap", "A", "B">>
        /\ RowNumbers = <<1, 2, 3, 4>>
        /\ GapRowsSpan(4, 10)
        /\ DepthOfSpanRows(1, 1) /\ DepthOfSpanRows(2, 1)

\* C10 (amended): the rows are [R, A, gap(0.2 s to 0.5 s), B], numbered
\* 1, 2, 3, 4, with A and B at depth 1: the gap row stands between A and B.
C10_Scenario ==
    ScenarioRun =>
        /\ RowNames = <<"R", "A", "gap", "B">>
        /\ RowNumbers = <<1, 2, 3, 4>>
        /\ GapRowsSpan(4, 10)
        /\ DepthOfSpanRows(1, 1) /\ DepthOfSpanRows(2, 1)
        /\ \A i \in DOMAIN rows : rows[i].kind # "info"

\* the scenario has been rendered
C10_Witness == ScenarioRun /\ Len(rows) = 4

\* C11: a props update whose incoming drag flags report a drag (isDragging
\* or isWindowSelectionDragging) starts no pass: the rows and the trailing
\* message stay those of the pass made before, whatever view window came
\* with it; a props update with both flags false always starts a new pass,
\* and once that pass has finished every span row shows the span as the view
\* window of that moment has it.
Dragging(props) == props.isDragging \/ props.isWindowSelectionDragging

RowsReflect(view) ==
    \A i \in DOMAIN rows :
        rows[i].kind = "span" => rows[i].isCurrentSpanHidden = view[rows[i].span]

C11_DragSuppression ==
    /\ [][updates' # updates =>
             IF Dragging(dragProps')
             THEN /\ pc' = "done"
                  /\ rows' = rows
                  /\ footer' = footer
             ELSE /\ pc' = "idle"
                  /\ rows' = <<>>]_vars
    /\ [](pc = "done" => RowsReflect(renderedWith))
    /\ []((pc = "done" /\ ~Dragging(dragProps)) => RowsReflect(hidden))

\* during a drag the view window has moved away from the one the rows on
\* display were computed with
C11_Witness ==
    /\ pc = "done"
    /\ Dragging(dragProps)
    /\ hidden # renderedWith
    /\ ~RowsReflect(hidden)
    /\ previous # Undefined

\* C12: a trace with no spans at all (an empty child lookup) still gives
\* exactly one row, the synthetic root: sequence number 1, depth 0, is-last
\* true, an empty continuing-depth list, no gap row; the pass returns
\* nextSpanNumber 2.
C12_EmptyTrace ==
    (pc = "done" /\ DOMAIN childSpans = {}) =>
        /\ Len(rows) = 1
        /\ rows[1].kind = "span"
        /\ rows[1].span = 0
        /\ rows[1].isRoot
        /\ rows[1].spanNumber = 1
        /\ rows[1].treeDepth = 0
        /\ rows[1].isLast
        /\ rows[1].continuingTreeDepths = <<>>
        /\ rows[1].numOfSpanChildren = 0
        /\ The(result).nextSpanNumber = 2

\* the pass over a trace without spans has finished, the root out of view and
\* filtered out
C12_Witness ==
    /\ pc = "done"
    /\ Len(spans) = 0
    /\ DOMAIN childSpans = {}
    /\ Len(calls) = 1
    /\ hidden[0]
    /\ filterSpans = Some({})

\* the call on the sibling visited just before the span of call c
PreviousSiblingCall(c) ==
    CHOOSE d \in CallIds :
        calls[d].caller = calls[c].caller /\ calls[d].index + 1 = calls[c].index

\* C13: every gap row starts at the end timestamp of the sibling visited just
\* before the span it precedes and ends at the start timestamp of that span,
\* so start < end and end - start is at least 0.1 s, for all non-negative
\* timestamps, a previous sibling that ends at timestamp 0 included; its
\* orphan flag is that of the span, and it is emitted at the span's depth,
\* with the continuing-depth list the span received and is-last false.
C13_GapRowTimes ==
    \A c \in CallIds : \A g \in RowsOf(c, "gap") :
        /\ calls[c].caller # 0
        /\ calls[c].index > 0
        /\ rows[g].span.start_timestamp = CallSpan(PreviousSiblingCall(c)).timestamp
        /\ rows[g].span.timestamp = CallSpan(c).start_timestamp
        /\ rows[g].span.start_timestamp < rows[g].span.timestamp
        /\ rows[g].span.timestamp - rows[g].span.start_timestamp >= MinGap
        /\ rows[g].span.isOrphan = isOrphanSpan(CallSpan(c))
        /\ rows[g].treeDepth = calls[c].args.treeDepth
        /\ rows[g].continuingTreeDepths = calls[c].args.continuingTreeDepths
        /\ rows[g].isLast = FALSE

\* a lookup without one key
WithoutKey(cs, id) == [k \in (DOMAIN cs) \ {id} |-> cs[k]]

\* C14: the pruning is local to the frame: a pass leaves the lookup of the
\* trace as it was built; the root receives that lookup, and every other call
\* receives the lookup its caller received without the one key that is the
\* caller's identifier, whatever earlier siblings and their subtrees pruned;
\* hence a pass made again on the same inputs gives the same rows.
C14_FrameLocalPruning ==
    /\ childSpans = BuildChildSpans(spans)
    /\ \A d \in CallIds :
          calls[d].args.childSpans =
              IF calls[d].caller = 0 THEN BuildChildSpans(spans)
              ELSE WithoutKey(calls[calls[d].caller].args.childSpans,
                              getSpanID(CallSpan(calls[d].caller)))
    /\ (/\ pc = "done"
        /\ previous # Undefined
        /\ The(previous).hidden = renderedWith) =>
           /\ rows = The(previous).rows
           /\ footer = The(previous).footer

\* a second pass on the same inputs has finished; in it a span was visited
\* after an earlier sibling that had a key of its own to prune
C14_Witness ==
    /\ pc = "done"
    /\ previous # Undefined
    /\ The(previous).hidden = renderedWith
    /\ \E d1, d2 \in CallIds :
          /\ calls[d1].caller # 0
          /\ calls[d1].caller = calls[d2].caller
          /\ calls[d1].index < calls[d2].index
          /\ getSpanID(CallSpan(d1)) \in DOMAIN calls[d1].args.childSpans
          /\ ChildCalls(d1) # {}

\* the sum of the numbers a message shows under a key
RECURSIVE SumShown(_, _)
SumShown(messages, key) ==
    IF messages = <<>> THEN 0
    ELSE (IF Head(messages).key = key THEN Head(messages).n ELSE 0)
         + SumShown(Tail(messages), key)

\* the sum over the messages of the first n rows
RECURSIVE SumRows(_, _)
SumRows(n, key) ==
    IF n = 0 THEN 0
    ELSE (IF rows[n].kind = "info" THEN SumShown(rows[n].messages, key) ELSE 0)
         + SumRows(n - 1, key)

TotalShown(key) == SumRows(Len(rows), key) + SumShown(footer, key)

\* C15: over a whole pass the numbers of all 'spans out of view' fragments,
\* those above rows and the one after the tree, add up to the number of
\* visited spans that are out of view, and the numbers of all 'spans filtered
\* out' fragments add up to the number of visited spans that are filtered
\* out: none is dropped, none is counted twice, and a gap row counts for
\* nothing.
C15_CountConservation ==
    pc = "done" =>
        /\ TotalShown("spans-out-of-view") =
               Cardinality({c \in CallIds : IsHidden(c)})
        /\ TotalShown("spans-filtered") =
               Cardinality({c \in CallIds : IsFilteredOut(c)})

\* a finished pass with two spans out of view, a filtered-out span that is
\* also out of view, a message above a row and a message after the tree
C15_Witness ==
    /\ pc = "done"
    /\ Cardinality({c \in CallIds : IsHidden(c)}) >= 2
    /\ \E c \in CallIds : IsFilteredOut(c) /\ IsHidden(c)
    /\ \E c \in CallIds : InfoOf(c) # <<>>
    /\ SumShown(footer, "spans-out-of-view") > 0
    /\ SumShown(footer, "spans-filtered") > 0

\* the span of call c is the last of its parent's children (the root is last)
IsLastChild(c) ==
    calls[c].caller = 0 \/ calls[c].index + 1 = NumChildren(calls[c].caller)

\* the depths of the proper ancestors of call c that are not last children
ContinuingAncestorDepths(c) ==
    {Cardinality(AncestorCalls(a)) : a \in {b \in AncestorCalls(c) : ~IsLastChild(b)}}

\* C16: every gap row and span row stands at the depth d that is the number
\* of proper ancestors of its span, and its continuing-depth list holds
\* exactly one marker for each proper ancestor that is not the last child at
\* its level and no other: the marker depths increase strictly and lie in
\* 1..d-1, so the list has at most d-1 entries and is empty for d <= 1.
C16_MarkersAreAncestors ==
    \A i \in DOMAIN rows :
        rows[i].kind # "info" =>
            LET c == rows[i].call
                d == rows[i].treeDepth
                list == rows[i].continuingTreeDepths
            IN  /\ d = Cardinality(AncestorCalls(c))
                /\ {list[k].depth : k \in DOMAIN list} = ContinuingAncestorDepths(c)
                /\ Len(list) = Cardinality(ContinuingAncestorDepths(c))
                /\ \A j, k \in DOMAIN list : j < k => list[j].depth < list[k].depth
                /\ \A k \in DOMAIN list : list[k].depth \in 1..(d - 1)
                /\ d >= 1 => Len(list) <= d - 1
                /\ d <= 1 => list = <<>>

\* a finished pass with a span row at depth 2 below a parent that is not the
\* last child, and a gap row
C16_Witness ==
    /\ pc = "done"
    /\ \E i \in DOMAIN rows :
          /\ rows[i].kind = "span"
          /\ rows[i].treeDepth = 2
          /\ rows[i].continuingTreeDepths = <<[type |-> "plain", depth |-> 1]>>
    /\ \E i \in DOMAIN rows : rows[i].kind = "gap"

\* C17: no gap row stands before the root or before the first child of a
\* span: the previous-sibling end is undefined when the fold over a span's
\* children starts, and after a child has been visited it is that child's own
\* end timestamp, whether or not the child is out of view or filtered out and
\* whatever the timestamps of its descendants.
C17_PreviousSiblingEnd ==
    /\ \A c \in CallIds :
          IF calls[c].caller = 0 \/ calls[c].index = 0
          THEN /\ calls[c].args.previousSiblingEndTimestamp = Undefined
               /\ ~HasGapRow(c)
          ELSE calls[c].args.previousSiblingEndTimestamp =
                   Some(CallSpan(PreviousSiblingCall(c)).timestamp)
    /\ \A k \in DOMAIN stack :
          stack[k].acc.previousSiblingEndTimestamp =
              IF stack[k].index = 0 THEN Undefined
              ELSE Some(Span(stack[k].spanChildren[stack[k].index]).timestamp)

\* a span in view has a gap row after a sibling that is out of view, filtered
\* out and has a child of its own, which ends later than the sibling does
C17_Witness ==
    /\ pc = "done"
    /\ \E c \in CallIds :
          /\ calls[c].caller # 0
          /\ calls[c].index > 0
          /\ HasGapRow(c)
          /\ IsHidden(PreviousSiblingCall(c))
          /\ IsFilteredOut(PreviousSiblingCall(c))
          /\ \E d \in ChildCalls(PreviousSiblingCall(c)) :
                CallSpan(d).timestamp > CallSpan(PreviousSiblingCall(c)).timestamp

====
